---- MODULE Spec2Model ----
(***************************************************************************)
(* Quiz section of latex_app.py: the question bank, the score, the set of  *)
(* credited questions and the review log kept in st.session_state, the     *)
(* "Generate New Question" handler and the "Check Answer" handler.         *)
(*                                                                         *)
(* A Python str is a sequence of one-character strings.  A Python value    *)
(* whose type is decided at run time (a parsed JSON value, a widget value) *)
(* is a record tagged with its type.  One Streamlit rerun of the script is *)
(* one action: at most one button is True in a rerun.                      *)
(***************************************************************************)
EXTENDS Integers, Sequences, FiniteSets, TLC

VARIABLES topic, quiz_data, score, attempted, review, last

vars == <<topic, quiz_data, score, attempted, review, last>>

session == <<quiz_data, score, attempted, review>>

-----------------------------------------------------------------------------
(* Bounds *)

\* successful appends to the bank in one session
MaxAppend == 1

\* entries in the review log in one session
MaxReview == 2

\* characters of a text given to validate_latex
MaxLatexLen == 4

\* characters of a text given to clean_label or letter_to_index
MaxLabelLen == 4

-----------------------------------------------------------------------------
(* Python values *)

PyNone == [t |-> "None"]

PyStr(s) == [t |-> "str", s |-> s]

PyInt(n) == [t |-> "int", n |-> n]

PyList(items) == [t |-> "list", items |-> items]

\* a dict read through the keys "q", "a" and "options"; extra: it holds another key
PyDict(q, a, options, extra) ==
    [t |-> "dict", q |-> q, a |-> a, options |-> options, extra |-> extra]

\* a key the dict does not hold
Absent == [t |-> "absent"]

\* d.get(key): None for a key the dict does not hold
Get(v) == IF v = Absent THEN PyNone ELSE v

\* bool(v)
Truthy(v) ==
    CASE v.t = "None" -> FALSE
      [] v.t = "str" -> v.s # <<>>
      [] v.t = "int" -> v.n # 0
      [] v.t = "list" -> v.items # <<>>
      [] v.t = "dict" -> v.extra \/ v.q # Absent \/ v.a # Absent \/ v.options # Absent
      [] OTHER -> FALSE

\* str(v)
Str(v) ==
    CASE v.t = "str" -> v.s
      [] v.t = "int" -> <<ToString(v.n)>>
      [] OTHER -> <<"None">>

-----------------------------------------------------------------------------
(* Character classes of the regular expressions *)

\* \s
Whitespace == {" ", "\t", "\n"}

\* [A-Da-d]
Letters == {"A", "B", "C", "D", "a", "b", "c", "d"}

\* [\)\.\:\-]
Separators == {")", ".", ":", "-"}

\* ord(m.group(1).upper()) - ord('A')
LetterOrd(c) ==
    CASE c \in {"A", "a"} -> 0
      [] c \in {"B", "b"} -> 1
      [] c \in {"C", "c"} -> 2
      [] c \in {"D", "d"} -> 3

\* \s* from position i: the first position at or after i that holds no whitespace
RECURSIVE SkipWs(_, _)
SkipWs(s, i) ==
    IF i <= Len(s) /\ s[i] \in Whitespace THEN SkipWs(s, i + 1) ELSE i

\* the last position at or before j that holds no whitespace
RECURSIVE BackWs(_, _)
BackWs(s, j) ==
    IF j >= 1 /\ s[j] \in Whitespace THEN BackWs(s, j - 1) ELSE j

\* s.strip()
Strip(s) == SubSeq(s, SkipWs(s, 1), BackWs(s, Len(s)))

\* re.sub(r'\s+', ' ', s)
RECURSIVE CollapseWs(_)
CollapseWs(s) ==
    IF s = <<>> THEN <<>>
    ELSE IF s[1] \in Whitespace
         THEN <<" ">> \o CollapseWs(SubSeq(s, SkipWs(s, 1), Len(s)))
         ELSE <<s[1]>> \o CollapseWs(Tail(s))

\* as LabelEnd, for a pattern whose separator is optional: ^\s*[A-Da-d]\s*[\)\.\:\-]?\s*
LabelEndOptionalSeparator(s) ==
    LET i1 == SkipWs(s, 1)
        i2 == SkipWs(s, i1 + 1)
    IN  IF i1 <= Len(s) /\ s[i1] \in Letters
        THEN IF i2 <= Len(s) /\ s[i2] \in Separators THEN SkipWs(s, i2 + 1) ELSE i2
        ELSE 0

\* end of the match of ^\s*[A-Da-d]\s*[\)\.\:\-]\s* in s, 0 when there is none
LabelEnd(s) ==
    LET i1 == SkipWs(s, 1)
        i2 == SkipWs(s, i1 + 1)
    IN  IF i1 <= Len(s) /\ s[i1] \in Letters /\ i2 <= Len(s) /\ s[i2] \in Separators
        THEN SkipWs(s, i2 + 1)
        ELSE 0

clean_label(v) ==
    LET s == Str(v)
        e == LabelEnd(s)
    IN  IF e = 0 THEN Strip(s) ELSE Strip(SubSeq(s, e, Len(s)))

\* as letter_to_index, for a pattern without the closing $
letter_to_index_prefix(v) ==
    IF v.t # "str" THEN PyNone
    ELSE LET s == v.s
             i1 == SkipWs(s, 1)
         IN  IF i1 <= Len(s) /\ s[i1] \in Letters
             THEN PyInt(LetterOrd(s[i1]))
             ELSE PyNone

letter_to_index(v) ==
    IF v.t # "str" THEN PyNone
    ELSE LET s == v.s
             i1 == SkipWs(s, 1)
             i2 == SkipWs(s, i1 + 1)
             i3 == IF i2 <= Len(s) /\ s[i2] \in Separators THEN SkipWs(s, i2 + 1) ELSE i2
         IN  IF i1 <= Len(s) /\ s[i1] \in Letters /\ i3 = Len(s) + 1
             THEN PyInt(LetterOrd(s[i1]))
             ELSE PyNone

norm(v) == CollapseWs(Strip(Str(v)))

-----------------------------------------------------------------------------
(* The static catalog (an excerpt: two topics, one question each) *)

QUIZ ==
    "Basics" :> <<
        [q |-> PyStr(<<"What symbol starts a comment?">>),
         a |-> PyStr(<<"%">>),
         options |-> <<PyStr(<<"#">>), PyStr(<<"%">>), PyStr(<<"/", "/">>), PyStr(<<"$">>)>>] >>
    @@
    "Math Mode" :> <<
        [q |-> PyStr(<<"Escape recommended for dx spacing?">>),
         a |-> PyStr(<<"\\", ",">>),
         options |-> <<PyStr(<<"\\", ":">>), PyStr(<<"\\", ";">>),
                       PyStr(<<"\\", ",">>), PyStr(<<"\\", "!">>)>>] >>

\* list(QUIZ.keys())
Topics == DOMAIN QUIZ

-----------------------------------------------------------------------------
(* Text returned by the language model (ollama): a sequence of tokens *)

Tok(k) == [k |-> k, v |-> PyNone]

\* a JSON scalar: a string, a number, null
Scalar(v) == [k |-> "scalar", v |-> v]

\* the members of a JSON object, read as the dict they parse to
Members(d) == [k |-> "members", v |-> d]

\* json.loads(raw): ok is FALSE for JSONDecodeError
RECURSIVE json_loads(_)
json_loads(raw) ==
    LET n == Len(raw)
        fail == [ok |-> FALSE, val |-> PyNone]
    IN  IF n = 1 /\ raw[1].k = "scalar"
        THEN [ok |-> TRUE, val |-> raw[1].v]
        ELSE IF n = 2 /\ raw[1].k = "{" /\ raw[2].k = "}"
        THEN [ok |-> TRUE, val |-> PyDict(Absent, Absent, Absent, FALSE)]
        ELSE IF n = 3 /\ raw[1].k = "{" /\ raw[2].k = "members" /\ raw[3].k = "}"
        THEN [ok |-> TRUE, val |-> raw[2].v]
        ELSE IF n = 2 /\ raw[1].k = "[" /\ raw[2].k = "]"
        THEN [ok |-> TRUE, val |-> PyList(<<>>)]
        ELSE IF n >= 3 /\ raw[1].k = "[" /\ raw[n].k = "]"
        THEN LET inner == json_loads(SubSeq(raw, 2, n - 1))
             IN  IF inner.ok THEN [ok |-> TRUE, val |-> PyList(<<inner.val>>)] ELSE fail
        ELSE fail

\* raw.find(c): 0-based, -1 when c does not occur
RECURSIVE FindFrom(_, _, _)
FindFrom(raw, c, i) ==
    IF i > Len(raw) THEN -1
    ELSE IF raw[i].k = c THEN i - 1
    ELSE FindFrom(raw, c, i + 1)

find(raw, c) == FindFrom(raw, c, 1)

\* raw.rfind(c): 0-based, -1 when c does not occur
RECURSIVE RFindFrom(_, _, _)
RFindFrom(raw, c, i) ==
    IF i < 1 THEN -1
    ELSE IF raw[i].k = c THEN i - 1
    ELSE RFindFrom(raw, c, i - 1)

rfind(raw, c) == RFindFrom(raw, c, Len(raw))

\* raw[start:end] for start, end >= 0
Slice(raw, start, end) ==
    SubSeq(raw, start + 1, IF end > Len(raw) THEN Len(raw) ELSE end)

\* the parsed value, or None; never raises
try_parse_json(raw) ==
    LET strict == json_loads(raw)
        start == find(raw, "{")
        end == rfind(raw, "}") + 1
        sub == json_loads(Slice(raw, start, end))
    IN  IF strict.ok THEN strict.val
        ELSE IF start # -1 /\ end # -1
             THEN IF sub.ok THEN sub.val ELSE PyNone
             ELSE PyNone

\* result: what subprocess.run did; "" after CalledProcessError, else the stripped stdout
ask_llm_ollama(result) ==
    IF result.err THEN <<>> ELSE result.stdout

-----------------------------------------------------------------------------
(* Inputs: what the language model may answer *)

\* "A) 1", "B) 2", "C) 3", "D) 4"
LabelledOptions ==
    <<PyStr(<<"A", ")", " ", "1">>), PyStr(<<"B", ")", " ", "2">>),
      PyStr(<<"C", ")", " ", "3">>), PyStr(<<"D", ")", " ", "4">>)>>

\* "A) B", "B) A": the text of each option is the letter of the other
CrossedOptions == <<PyStr(<<"A", ")", " ", "B">>), PyStr(<<"B", ")", " ", "A">>)>>

\* a number among the options
MixedOptions == <<PyInt(7), PyStr(<<"2">>)>>

QValues == {Absent, PyStr(<<>>), PyStr(<<"X", "?">>)}

AValues ==
    {Absent, PyStr(<<>>), PyStr(<<"B">>), PyStr(<<"c", ".">>),
     PyStr(<<"A", ")", " ", "2">>), PyInt(7)}

OptionsValues ==
    {Absent, PyStr(<<"1">>), PyList(<<>>), PyList(LabelledOptions),
     PyList(CrossedOptions), PyList(MixedOptions)}

GeneratedRecords ==
    {PyDict(q, a, o, FALSE) : q \in QValues, a \in AValues, o \in OptionsValues}
        \cup {PyDict(Absent, Absent, Absent, TRUE)}

\* the JSON text of a record
Object(d) == <<Tok("{"), Members(d), Tok("}")>>

Prose == Tok("prose")

\* texts that are no JSON object
OtherTexts ==
    { <<>>,
      <<Prose>>,
      <<Tok("{"), Prose>>,
      <<Prose, Tok("}")>>,
      <<Tok("}"), Prose, Tok("{")>>,
      <<Tok("{"), Prose, Tok("}")>>,
      <<Tok("{"), Tok("}")>>,
      <<Tok("["), Tok("]")>>,
      <<Scalar(PyNone)>>,
      <<Scalar(PyInt(0))>>,
      <<Scalar(PyInt(5))>>,
      <<Scalar(PyStr(<<>>))>>,
      <<Scalar(PyStr(<<"B">>))>>,
      <<Tok("["), Scalar(PyInt(5)), Tok("]")>> }

\* the record of the specification's example: "q": "X?", "a": "B", labelled options
ExampleRecord == PyDict(PyStr(<<"X", "?">>), PyStr(<<"B">>), PyList(LabelledOptions), FALSE)

\* the texts the language model answers in the session specification
SessionRecords ==
    { PyDict(PyStr(<<"X", "?">>), PyStr(<<"B">>), PyList(CrossedOptions), FALSE),
      PyDict(PyStr(<<"X", "?">>), PyStr(<<"A", ")", " ", "2">>), PyList(MixedOptions), FALSE),
      PyDict(PyStr(<<"X", "?">>), Absent, PyList(MixedOptions), FALSE) }

\* every text the language model answers in the ingest specification
RawTexts ==
    {Object(d) : d \in GeneratedRecords}
        \cup {<<Prose>> \o Object(d) \o <<Prose>> : d \in SessionRecords \cup {ExampleRecord}}
        \cup {<<Tok("[")>> \o Object(ExampleRecord) \o <<Tok("]")>>}
        \cup OtherTexts

SessionTexts ==
    {Object(d) : d \in SessionRecords}
        \cup {<<Prose>> \o Object(d) \o <<Prose>> : d \in SessionRecords}
        \cup {<<>>, <<Tok("{"), Prose>>, <<Scalar(PyInt(5))>>}

\* outcomes of subprocess.run: CalledProcessError, or a stripped stdout
Results(texts) ==
    {[err |-> TRUE, stdout |-> <<>>]} \cup {[err |-> FALSE, stdout |-> x] : x \in texts}

-----------------------------------------------------------------------------
(* Session state *)

\* what the last rerun did and showed (a record of the run, not program state)
NoRun ==
    [op |-> "none", outcome |-> "none", topic |-> "", q_idx |-> -1, ans |-> PyNone,
     correct_text |-> <<>>, shown |-> <<>>, parsed |-> PyNone,
     n |-> 0, score0 |-> 0, len0 |-> 0, credited0 |-> FALSE,
     arg |-> PyNone, ret |-> PyNone]

\* f"{topic}_{q_idx}"
Key(t, q_idx) == t \o "_" \o ToString(q_idx)

\* questions appended so far
RECURSIVE SumOver(_, _)
SumOver(f, S) ==
    IF S = {} THEN 0
    ELSE LET x == CHOOSE y \in S : TRUE IN f[x] + SumOver(f, S \ {x})

Appended == SumOver([t \in Topics |-> Len(quiz_data[t]) - Len(QUIZ[t])], Topics)

Init ==
    /\ topic = "Basics"
    /\ quiz_data = [t \in Topics |-> QUIZ[t]]
    /\ score = 0
    /\ attempted = {}
    /\ review = <<>>
    /\ last = NoRun

\* a rerun after the topic selectbox changed
SelectTopic(t) ==
    /\ t # topic
    /\ topic' = t
    /\ last' = [NoRun EXCEPT !.op = "select", !.topic = t]
    /\ UNCHANGED session

-----------------------------------------------------------------------------
(* Generate New Question *)

\* the condition that admits the parsed value as a question; evaluated for a dict
ValidQuestion(new_q) ==
    /\ Get(new_q.options).t = "list"
    /\ Truthy(Get(new_q.q))
    /\ Truthy(Get(new_q.a))

\* as NormalizedAnswer, storing the option as written, label included
NormalizedAnswerLabelled(new_q) ==
    LET idx == letter_to_index(new_q.a)
        options == new_q.options.items
    IN  IF idx # PyNone /\ 0 <= idx.n /\ idx.n < Len(options)
        THEN Str(options[idx.n + 1])
        ELSE clean_label(new_q.a)

\* the text stored as new_q["a"]
NormalizedAnswer(new_q) ==
    LET idx == letter_to_index(new_q.a)
        options == new_q.options.items
    IN  IF idx # PyNone /\ 0 <= idx.n /\ idx.n < Len(options)
        THEN clean_label(options[idx.n + 1])
        ELSE clean_label(new_q.a)

\* the dict appended to the bank
StoredQuestion(new_q) ==
    [q |-> new_q.q, a |-> PyStr(NormalizedAnswer(new_q)), options |-> new_q.options.items]

\* as GenerateOutcome, admitting every non-empty dict
GenerateOutcomeUnvalidated(new_q) ==
    IF ~Truthy(new_q) THEN "failed"
    ELSE IF new_q.t # "dict" THEN "exception"
    ELSE "added"

\* "added", "failed" (st.error with the raw output) or "exception" (AttributeError
\* from new_q.get on a value that is no dict)
GenerateOutcome(new_q) ==
    IF ~Truthy(new_q) THEN "failed"
    ELSE IF new_q.t # "dict" THEN "exception"
    ELSE IF ValidQuestion(new_q) THEN "added"
    ELSE "failed"

\* as BankAfterAppend, putting the question in front of the topic's questions
BankAfterInsertFirst(t, question) ==
    [quiz_data EXCEPT ![t] = <<question>> \o @]

\* st.session_state.quiz_data[topic].append(new_q)
BankAfterAppend(t, question) ==
    [quiz_data EXCEPT ![t] = Append(@, question)]

GenerateNewQuestion(result) ==
    LET new_q_json == ask_llm_ollama(result)
        new_q == try_parse_json(new_q_json)
        outcome == GenerateOutcome(new_q)
    IN  /\ outcome = "added" => Appended < MaxAppend
        /\ quiz_data' =
               IF outcome = "added"
               THEN BankAfterAppend(topic, StoredQuestion(new_q))
               ELSE quiz_data
        /\ last' = [NoRun EXCEPT !.op = "generate", !.outcome = outcome, !.topic = topic,
                                 !.parsed = new_q,
                                 !.shown = IF outcome = "failed" THEN new_q_json ELSE <<>>]
        /\ UNCHANGED <<topic, score, attempted, review>>

-----------------------------------------------------------------------------
(* Check Answer *)

\* [clean_label(opt) for opt in q["options"]]
options_text(q) == [i \in 1..Len(q.options) |-> clean_label(q.options[i])]

\* as CorrectText, taking the option as written, label included
CorrectTextLabelled(q) ==
    LET idx == letter_to_index(q.a)
    IN  IF idx # PyNone /\ 0 <= idx.n /\ idx.n < Len(q.options)
        THEN Str(q.options[idx.n + 1])
        ELSE clean_label(q.a)

\* the correct answer text of q
CorrectText(q) ==
    LET idx == letter_to_index(q.a)
    IN  IF idx # PyNone /\ 0 <= idx.n /\ idx.n < Len(options_text(q))
        THEN options_text(q)[idx.n + 1]
        ELSE clean_label(q.a)

\* norm(ans) == norm(correct_text)
IsCorrect(ans, correct_text) == norm(ans) = norm(PyStr(correct_text))

\* the values the radio of q can hold: no selection, or one of the option texts
RadioValues(q) == {PyNone} \cup {PyStr(options_text(q)[i]) : i \in 1..Len(q.options)}

\* as ReviewAfter, keeping one entry per distinct triple
ReviewAfterDistinct(q, correct_text, ans) ==
    IF \E i \in 1..Len(review) : review[i] = <<q.q, PyStr(correct_text), ans>>
    THEN review
    ELSE Append(review, <<q.q, PyStr(correct_text), ans>>)

\* st.session_state.review.append((q["q"], correct_text, ans))
ReviewAfter(q, correct_text, ans) == Append(review, <<q.q, PyStr(correct_text), ans>>)

\* as ScoreAfter, without the look-up in the credited set
ScoreAfterEveryTime(correct, key) ==
    IF correct THEN score + 1 ELSE score

\* the score after a verdict on the question filed under key
ScoreAfter(correct, key) ==
    IF correct /\ key \notin attempted THEN score + 1 ELSE score

\* as AttemptedAfter, never recording the credit
AttemptedAfterForgotten(correct, key) == attempted

\* as AttemptedAfter, crediting the question on any verdict
AttemptedAfterAnyVerdict(correct, key) == attempted \cup {key}

\* the credited set after a verdict on the question filed under key
AttemptedAfter(correct, key) ==
    IF correct /\ key \notin attempted THEN attempted \cup {key} ELSE attempted

\* the run of identical correct submissions that this submission continues or starts
Streak(q_idx, ans, correct) ==
    IF /\ correct
       /\ last.op = "check" /\ last.outcome = "correct"
       /\ last.topic = topic /\ last.q_idx = q_idx /\ last.ans = ans
    THEN [n |-> last.n + 1, score0 |-> last.score0, len0 |-> last.len0,
          credited0 |-> last.credited0]
    ELSE [n |-> 1, score0 |-> score, len0 |-> Len(review),
          credited0 |-> Key(topic, q_idx) \in attempted]

\* as CheckAnswer, without the test for a missing selection
CheckAnswerUnguarded(q_idx, ans) ==
    LET q == quiz_data[topic][q_idx + 1]
        correct_text == CorrectText(q)
        correct == IsCorrect(ans, correct_text)
        key == Key(topic, q_idx)
        run == Streak(q_idx, ans, correct)
    IN  /\ Len(review) < MaxReview
        /\ score' = ScoreAfter(correct, key)
        /\ attempted' = AttemptedAfter(correct, key)
        /\ review' = ReviewAfter(q, correct_text, ans)
        /\ last' = [NoRun EXCEPT !.op = "check",
                                 !.outcome = IF correct THEN "correct" ELSE "incorrect",
                                 !.topic = topic, !.q_idx = q_idx, !.ans = ans,
                                 !.correct_text = correct_text,
                                 !.n = run.n, !.score0 = run.score0,
                                 !.len0 = run.len0, !.credited0 = run.credited0]
        /\ UNCHANGED <<topic, quiz_data>>

CheckAnswer(q_idx, ans) ==
    LET q == quiz_data[topic][q_idx + 1]
        correct_text == CorrectText(q)
        correct == IsCorrect(ans, correct_text)
        key == Key(topic, q_idx)
        run == Streak(q_idx, ans, correct)
    IN  IF ans = PyNone
        THEN /\ last' = [NoRun EXCEPT !.op = "check", !.outcome = "select_first",
                                      !.topic = topic, !.q_idx = q_idx]
             /\ UNCHANGED <<topic, session>>
        ELSE /\ Len(review) < MaxReview
             /\ score' = ScoreAfter(correct, key)
             /\ attempted' = AttemptedAfter(correct, key)
             /\ review' = ReviewAfter(q, correct_text, ans)
             /\ last' = [NoRun EXCEPT !.op = "check",
                                      !.outcome = IF correct THEN "correct" ELSE "incorrect",
                                      !.topic = topic, !.q_idx = q_idx, !.ans = ans,
                                      !.correct_text = correct_text,
                                      !.n = run.n, !.score0 = run.score0,
                                      !.len0 = run.len0, !.credited0 = run.credited0]
             /\ UNCHANGED <<topic, quiz_data>>

-----------------------------------------------------------------------------
(* Specifications *)

Select == \E t \in Topics : SelectTopic(t)

Generate == \E result \in Results(SessionTexts) : GenerateNewQuestion(result)

Check ==
    \E q_idx \in 0..(Len(quiz_data[topic]) - 1) :
        \E ans \in RadioValues(quiz_data[topic][q_idx + 1]) : CheckAnswer(q_idx, ans)

Next == Select \/ Generate \/ Check

Spec == Init /\ [][Next]_vars

\* the ingest handler alone on the first topic, over every text of RawTexts
GenerateAny == \E result \in Results(RawTexts) : GenerateNewQuestion(result)

NextIngest == GenerateAny

SpecIngest == Init /\ [][NextIngest]_vars

-----------------------------------------------------------------------------
(* Scoring and the review log *)

\* the last rerun was a Check Answer that reached a verdict
Submitted(l) == l.op = "check" /\ l.outcome \in {"correct", "incorrect"}

\* the question the rerun recorded in l was about
QuestionOf(l) == quiz_data[l.topic][l.q_idx + 1]

\* the review section shows entry e as correct
ShownCorrect(e) == norm(e[3]) = norm(e[2])

\* C1: after N >= 1 identical correct submissions in a row to one question, score
\* is 1 above its value before the first of them if the question was not credited
\* then, and equal to it otherwise, and the review log is N entries longer.
IdempotentCredit ==
    (last.op = "check" /\ last.outcome = "correct") =>
        /\ score = last.score0 + (IF last.credited0 THEN 0 ELSE 1)
        /\ Len(review) = last.len0 + last.n

IdempotentCreditWitness ==
    /\ last.op = "check" /\ last.outcome = "correct"
    /\ last.n >= 2
    /\ ~last.credited0
    /\ score = last.score0 + 1

\* C2: score changes only at a correct submission to a question that is not yet
\* credited; there it rises by exactly 1 and the question joins the credited set,
\* whatever was submitted before; no step removes a question from the credited set
\* or lowers score.
CreditOnlyOnFirstCorrect ==
    [][LET key == Key(last'.topic, last'.q_idx)
           first == /\ last'.op = "check" /\ last'.outcome = "correct"
                    /\ review' # review
                    /\ key \notin attempted
       IN  /\ score' >= score
           /\ attempted \subseteq attempted'
           /\ first => score' = score + 1 /\ attempted' = attempted \cup {key}
           /\ ~first => score' = score /\ attempted' = attempted]_vars

\* an incorrect submission to a question, then a correct one that earns the credit
CreditOnlyOnFirstCorrectWitness ==
    /\ Len(review) = 2
    /\ review[1][1] = review[2][1]
    /\ ~ShownCorrect(review[1])
    /\ last.op = "check" /\ last.outcome = "correct" /\ ~last.credited0
    /\ score = 1
    /\ attempted = {Key(last.topic, last.q_idx)}

\* C3: a submission that carries a selection appends the triple (question text,
\* correct text, submitted text) to the end of the review log, whatever the verdict
\* and whether or not the question is credited; every other step leaves the log as
\* it is; an incorrect submission leaves score and the credited set unchanged and
\* its entry is shown as incorrect.
ReviewIsAuditTrail ==
    [][/\ IF last'.op = "check" /\ last'.ans # PyNone /\ last' # last
          THEN review' = Append(review, <<QuestionOf(last').q,
                                          PyStr(CorrectText(QuestionOf(last'))),
                                          last'.ans>>)
          ELSE review' = review
       /\ (last'.op = "check" /\ last'.outcome = "incorrect" /\ last' # last) =>
              /\ score' = score
              /\ attempted' = attempted
              /\ ~ShownCorrect(review'[Len(review')])]_vars

\* two incorrect submissions to one question
ReviewIsAuditTrailWitness ==
    /\ Len(review) = 2
    /\ review[1] = review[2]
    /\ ~ShownCorrect(review[1]) /\ ~ShownCorrect(review[2])
    /\ last.op = "check" /\ last.outcome = "incorrect"
    /\ score = 0

\* C4: Check Answer with no selection asks for a selection and changes neither
\* score, the credited set, the review log nor the question bank.
NoSelectionIsNoOp ==
    [][(last'.op = "check" /\ last'.ans = PyNone) =>
           /\ last'.outcome = "select_first"
           /\ UNCHANGED session]_vars

NoSelectionIsNoOpWitness ==
    /\ last.op = "check" /\ last.outcome = "select_first"
    /\ score > 0
    /\ review # <<>>

\* C5: the correct text of a submission is the label-stripped option at the letter
\* index of the answer key when the key is a letter within the options, and the
\* label-stripped key otherwise; every submission with a selection gets a verdict.
CorrectTextResolution ==
    Submitted(last) =>
        LET q == QuestionOf(last)
            idx == letter_to_index(q.a)
        IN  last.correct_text =
                IF idx # PyNone /\ idx.n >= 0 /\ idx.n < Len(q.options)
                THEN clean_label(q.options[idx.n + 1])
                ELSE clean_label(q.a)

\* a submission to a question whose key is a letter within the options
CorrectTextResolutionWitness ==
    /\ Submitted(last)
    /\ letter_to_index(QuestionOf(last).a) # PyNone
    /\ letter_to_index(QuestionOf(last).a).n < Len(QuestionOf(last).options)

-----------------------------------------------------------------------------
(* Ingestion *)

\* the last rerun was a Generate New Question
Generated(l) == l.op = "generate"

\* the question at the end of the topic the rerun recorded in l was about
NewestOf(l) == quiz_data[l.topic][Len(quiz_data[l.topic])]

\* the question of l was appended by Generate New Question
Ingested(l) == l.q_idx >= Len(QUIZ[l.topic])

\* C6: for a question appended by Generate New Question, the correct text of a
\* later submission is the answer text that was stored in the record.
StoredAnswerIsStable ==
    (Submitted(last) /\ Ingested(last)) =>
        PyStr(last.correct_text) = QuestionOf(last).a

\* C7: a successful ingest stores as the answer the label-stripped option at the
\* letter index of the supplied answer when that is a letter within the options,
\* and the label-stripped supplied answer otherwise; it stores the options as
\* supplied; answer "B" with options "A) 1", "B) 2", "C) 3", "D) 4" is stored as "2".
IngestStoresResolvedAnswer ==
    (Generated(last) /\ last.outcome = "added") =>
        LET new_q == last.parsed
            idx == letter_to_index(new_q.a)
            stored == NewestOf(last)
        IN  /\ stored.a =
                   IF idx # PyNone /\ idx.n >= 0 /\ idx.n < Len(new_q.options.items)
                   THEN PyStr(clean_label(new_q.options.items[idx.n + 1]))
                   ELSE PyStr(clean_label(new_q.a))
            /\ stored.options = new_q.options.items
            /\ new_q = ExampleRecord => stored.a = PyStr(<<"2">>)

IngestStoresResolvedAnswerWitness ==
    /\ Generated(last) /\ last.outcome = "added"
    /\ last.parsed = ExampleRecord
    /\ NewestOf(last).a = PyStr(<<"2">>)

\* v is a non-empty str
NonEmptyStr(v) == v.t = "str" /\ v.s # <<>>

\* a non-empty question text, a non-empty answer and a non-empty list of strings
WellShaped(new_q) ==
    /\ NonEmptyStr(new_q.q)
    /\ Truthy(Get(new_q.a))
    /\ new_q.options.t = "list"
    /\ new_q.options.items # <<>>
    /\ \A i \in 1..Len(new_q.options.items) : new_q.options.items[i].t = "str"

\* C8: a parsed record is appended exactly when it has a non-empty question text,
\* a non-empty answer and options that are a non-empty list of strings; every
\* other parsed record is reported as a failure.
IngestAcceptsOnlyWellShaped ==
    (Generated(last) /\ last.parsed.t = "dict") =>
        IF WellShaped(last.parsed)
        THEN last.outcome = "added"
        ELSE last.outcome = "failed"

\* C9: an ingest that fails, with no text from the language model, with text that does not
\* parse or with a parsed value of invalid shape, changes neither the question
\* bank, score, the credited set nor the review log; the bank changes only by an
\* ingest of a valid question.
FailedIngestChangesNothing ==
    [][LET valid == last'.parsed.t = "dict" /\ ValidQuestion(last'.parsed)
       IN  /\ (Generated(last') /\ ~valid) => UNCHANGED session
           /\ quiz_data' # quiz_data => Generated(last') /\ valid]_vars

\* a failed ingest in a session that has a score, a review log and an appended question
FailedIngestChangesNothingWitness ==
    /\ Generated(last) /\ last.outcome = "failed"
    /\ last.parsed.t = "dict"
    /\ score > 0
    /\ review # <<>>
    /\ Appended > 0

\* C10: every Generate New Question ends in a question added or a reported
\* failure that shows the raw text; no error escapes the handler.
IngestNeverRaises ==
    Generated(last) => last.outcome \in {"added", "failed"}

-----------------------------------------------------------------------------
(* The bank and the credited set *)

\* the (topic, index) pairs of the bank, indices from 0
Pairs == UNION {{<<t, i>> : i \in 0..(Len(quiz_data[t]) - 1)} : t \in Topics}

\* the credited pairs: those whose key is in attempted
Credited == {p \in Pairs : Key(p[1], p[2]) \in attempted}

\* C11: a successful ingest for the selected topic adds exactly one question, at
\* the end of that topic's questions, at the index that was their number before;
\* every question that was in the bank, of any topic, keeps its index and its
\* content in every step, so a credited (topic, index) keeps denoting the question
\* that earned the credit.
AppendKeepsIndices ==
    [][/\ \A t \in Topics :
              /\ Len(quiz_data'[t]) >= Len(quiz_data[t])
              /\ \A i \in 1..Len(quiz_data[t]) : quiz_data'[t][i] = quiz_data[t][i]
       /\ \A p \in Credited : quiz_data'[p[1]][p[2] + 1] = quiz_data[p[1]][p[2] + 1]
       /\ (Generated(last') /\ last'.outcome = "added" /\ last' # last) =>
              /\ quiz_data'[topic] =
                     Append(quiz_data[topic], quiz_data'[topic][Len(quiz_data[topic]) + 1])
              /\ \A t \in Topics \ {topic} : quiz_data'[t] = quiz_data[t]]_vars

\* a question appended to a topic whose first question is already credited
AppendKeepsIndicesWitness ==
    /\ Generated(last) /\ last.outcome = "added"
    /\ Key(last.topic, 0) \in attempted
    /\ Len(quiz_data[last.topic]) = Len(QUIZ[last.topic]) + 1
    /\ quiz_data[last.topic][1] = QUIZ[last.topic][1]

\* C15: score is the number of credited (topic, index) pairs, every credited key
\* is the key of a question of the bank, and score is at most the number of
\* questions of the bank.
ScoreCountsCredited ==
    /\ score = Cardinality(attempted)
    /\ attempted = {Key(p[1], p[2]) : p \in Credited}
    /\ Cardinality(Credited) = score
    /\ score <= Cardinality(Pairs)

\* credits in two topics, after a change of topic
ScoreCountsCreditedWitness ==
    /\ score = 2
    /\ \A t \in Topics : Key(t, 0) \in attempted

-----------------------------------------------------------------------------
(* LaTeX helpers *)

\* PAIR_MAP
PAIR_MAP == "{" :> "}" @@ "(" :> ")" @@ "[" :> "]"

\* PAIR_MAP.values()
Closers == {PAIR_MAP[o] : o \in DOMAIN PAIR_MAP}

\* the pair (ok, msg) that validate_latex returns; pos and opener are the position
\* and the bracket that msg names
Verdict(ok, msg, pos, opener) ==
    [t |-> "tuple", ok |-> ok, msg |-> msg, pos |-> pos, opener |-> opener]

\* as ValidateFrom, reporting left-over openers by the outermost one
RECURSIVE ValidateFromOutermost(_, _, _)
ValidateFromOutermost(s, i, stack) ==
    IF i > Len(s)
    THEN IF stack # <<>>
         THEN Verdict(FALSE, "Unmatched opening bracket/brace", -1, stack[1])
         ELSE IF Strip(s) = <<>>
         THEN Verdict(FALSE, "Input is empty.", -1, "")
         ELSE Verdict(TRUE, "", -1, "")
    ELSE IF s[i] \in DOMAIN PAIR_MAP
    THEN ValidateFromOutermost(s, i + 1, Append(stack, s[i]))
    ELSE IF s[i] \in Closers
    THEN IF stack = <<>>
         THEN Verdict(FALSE, "Unmatched closing bracket/brace at position", i - 1, "")
         ELSE IF PAIR_MAP[stack[Len(stack)]] # s[i]
         THEN Verdict(FALSE, "Mismatched brackets/braces at position", i - 1, "")
         ELSE ValidateFromOutermost(s, i + 1, SubSeq(stack, 1, Len(stack) - 1))
    ELSE ValidateFromOutermost(s, i + 1, stack)

\* the loop of validate_latex from the character at index i - 1 on, and what follows it
RECURSIVE ValidateFrom(_, _, _)
ValidateFrom(s, i, stack) ==
    IF i > Len(s)
    THEN IF stack # <<>>
         THEN Verdict(FALSE, "Unmatched opening bracket/brace", -1, stack[Len(stack)])
         ELSE IF Strip(s) = <<>>
         THEN Verdict(FALSE, "Input is empty.", -1, "")
         ELSE Verdict(TRUE, "", -1, "")
    ELSE IF s[i] \in DOMAIN PAIR_MAP
    THEN ValidateFrom(s, i + 1, Append(stack, s[i]))
    ELSE IF s[i] \in Closers
    THEN IF stack = <<>>
         THEN Verdict(FALSE, "Unmatched closing bracket/brace at position", i - 1, "")
         ELSE IF PAIR_MAP[stack[Len(stack)]] # s[i]
         THEN Verdict(FALSE, "Mismatched brackets/braces at position", i - 1, "")
         ELSE ValidateFrom(s, i + 1, SubSeq(stack, 1, Len(stack) - 1))
    ELSE ValidateFrom(s, i + 1, stack)

validate_latex(s) == ValidateFrom(s, 1, <<>>)

\* the texts of at most n characters of alphabet
Texts(alphabet, n) == UNION {[1..k -> alphabet] : k \in 0..n}

\* characters typed into the editor
LatexAlphabet == {"{", "}", "(", ")", "[", "]", " ", "x"}

\* texts typed into the editor
LatexTexts == Texts(LatexAlphabet, MaxLatexLen)

\* v is a str of at most n characters of alphabet
IsText(v, alphabet, n) ==
    v.t = "str" /\ Len(v.s) <= n /\ \A i \in 1..Len(v.s) : v.s[i] \in alphabet

\* render_latex(s): the verdict of validate_latex decides between st.error and st.latex
RenderLatex(s) ==
    /\ last' = [NoRun EXCEPT !.op = "render_latex", !.arg = PyStr(s),
                             !.ret = validate_latex(s)]
    /\ UNCHANGED <<topic, session>>

\* the editor holds last.arg
Render ==
    /\ last.op = "none"
    /\ IsText(last.arg, LatexAlphabet, MaxLatexLen)
    /\ RenderLatex(last.arg.s)

\* answer keys and option texts given to the quiz helpers
LabelAlphabet == {"A", "b", "D", ")", ".", " ", "x"}

LabelTexts == Texts(LabelAlphabet, MaxLabelLen)

\* values that are no str
NonStrings == {PyNone, PyInt(0), PyInt(7)}

\* a call of clean_label
CleanLabel(v) ==
    /\ last' = [NoRun EXCEPT !.op = "clean_label", !.arg = v, !.ret = PyStr(clean_label(v))]
    /\ UNCHANGED <<topic, session>>

\* a call of letter_to_index
LetterToIndex(v) ==
    /\ last' = [NoRun EXCEPT !.op = "letter_to_index", !.arg = v, !.ret = letter_to_index(v)]
    /\ UNCHANGED <<topic, session>>

\* the value last.arg is the argument
Clean ==
    /\ last.op = "none"
    /\ IsText(last.arg, LabelAlphabet, MaxLabelLen) \/ last.arg \in NonStrings
    /\ CleanLabel(last.arg)

\* the value last.arg is the argument
Letter ==
    /\ last.op = "none"
    /\ IsText(last.arg, LabelAlphabet, MaxLabelLen) \/ last.arg \in NonStrings
    /\ LetterToIndex(last.arg)

\* the arguments of the helpers
HelperArgs == {PyStr(x) : x \in LatexTexts \cup LabelTexts} \cup NonStrings

\* a fresh session and an argument for a helper
InitHelpers ==
    /\ topic = "Basics"
    /\ quiz_data = [t \in Topics |-> QUIZ[t]]
    /\ score = 0
    /\ attempted = {}
    /\ review = <<>>
    /\ last \in {[NoRun EXCEPT !.arg = v] : v \in HelperArgs}

NextHelpers == Render \/ Clean \/ Letter

\* the helpers alone, each applied to every argument of its input set
SpecHelpers == InitHelpers /\ [][NextHelpers]_vars

-----------------------------------------------------------------------------
(* validate_latex *)

\* the brackets of s, in order
Brackets(s) == SelectSeq(s, LAMBDA c : c \in DOMAIN PAIR_MAP \cup Closers)

\* b without its first adjacent opener-closer pair of one kind, repeatedly
RECURSIVE Cancel(_)
Cancel(b) ==
    LET hits == {i \in 1..(Len(b) - 1) : b[i] \in DOMAIN PAIR_MAP /\ PAIR_MAP[b[i]] = b[i + 1]}
        i == CHOOSE j \in hits : \A k \in hits : j <= k
    IN  IF hits = {} THEN b
        ELSE Cancel(SubSeq(b, 1, i - 1) \o SubSeq(b, i + 2, Len(b)))

\* the brackets of s that no partner closes
Residue(s) == Cancel(Brackets(s))

\* the brackets of s are properly nested
Nested(s) == Residue(s) = <<>>

\* every bracket of the first i characters of s can still be closed
Closable(s, i) == \A k \in 1..Len(Residue(SubSeq(s, 1, i))) :
                      Residue(SubSeq(s, 1, i))[k] \in DOMAIN PAIR_MAP

\* the 1-based positions of s up to which some closer has no matching opener
BadClosers(s) == {i \in 1..Len(s) : ~Closable(s, i)}

AllWhitespace(s) == \A i \in 1..Len(s) : s[i] \in Whitespace

\* C12: validate_latex accepts s exactly when s is not all whitespace and its
\* brackets are properly nested; it fails at the (0-based) position of the first
\* closer that has no open bracket or does not match the innermost open one;
\* otherwise, with openers left, it fails naming the innermost of them; otherwise
\* an empty or all-whitespace s fails as empty.
ValidateLatexContract ==
    last.op = "render_latex" =>
        LET s == last.arg.s
            ret == last.ret
            bad == BadClosers(s)
            first == CHOOSE i \in bad : \A k \in bad : i <= k
            open == Residue(s)
        IN  /\ ret.ok <=> (Nested(s) /\ ~AllWhitespace(s))
            /\ IF bad # {}
               THEN /\ ~ret.ok
                    /\ ret.pos = first - 1
                    /\ s[first] \in Closers
                    /\ ret.msg = IF Residue(SubSeq(s, 1, first - 1)) = <<>>
                                 THEN "Unmatched closing bracket/brace at position"
                                 ELSE "Mismatched brackets/braces at position"
               ELSE IF open # <<>>
               THEN /\ ret.msg = "Unmatched opening bracket/brace"
                    /\ ret.opener = open[Len(open)]
               ELSE IF AllWhitespace(s)
               THEN ret.msg = "Input is empty."
               ELSE ret = Verdict(TRUE, "", -1, "")

\* "([x": two openers are left, and the innermost, "[", is the one named
ValidateLatexContractWitness ==
    /\ last.op = "render_latex"
    /\ last.arg.s = <<"(", "[", "x">>
    /\ last.ret.opener = "["

-----------------------------------------------------------------------------
(* clean_label and letter_to_index *)

\* the positions of s that hold no whitespace
Inked(s) == {i \in 1..Len(s) : s[i] \notin Whitespace}

Least(S) == CHOOSE i \in S : \A k \in S : i <= k

Greatest(S) == CHOOSE i \in S : \A k \in S : i >= k

\* s without its leading and trailing whitespace
Trimmed(s) ==
    IF Inked(s) = {} THEN <<>> ELSE SubSeq(s, Least(Inked(s)), Greatest(Inked(s)))

\* the positions of a separator that ends a label at the start of s: before it, one
\* letter A-D of either case and otherwise only whitespace
LabelSeparators(s) ==
    {j \in 1..Len(s) :
        /\ s[j] \in Separators
        /\ \E i \in 1..(j - 1) :
               /\ s[i] \in Letters
               /\ \A k \in (1..(j - 1)) \ {i} : s[k] \in Whitespace}

\* C13 as stated: a prefix of one letter A-D, an optional separator and an optional
\* following space is removed from the start of s and the trimmed rest is
\* returned; without such a prefix, s trimmed.
StripLabelOptionalSeparator ==
    (last.op = "clean_label" /\ last.arg.t = "str") =>
        LET s == last.arg.s
            j == IF Len(s) >= 2 /\ s[2] \in Separators THEN 3 ELSE 2
        IN  last.ret.s =
                IF Len(s) >= 1 /\ s[1] \in Letters
                THEN Trimmed(SubSeq(s, j, Len(s)))
                ELSE Trimmed(s)

\* C13, amended: clean_label removes from the start of s a prefix made of optional
\* whitespace, one letter A-D of either case, optional whitespace and one
\* separator among ) . : - (which must be there), and returns the rest trimmed;
\* without such a prefix it returns s trimmed; the characters it returns are a
\* contiguous part of s, unaltered.
StripLabelContract ==
    (last.op = "clean_label" /\ last.arg.t = "str") =>
        LET s == last.arg.s
            seps == LabelSeparators(s)
        IN  /\ Cardinality(seps) <= 1
            /\ last.ret.s =
                   IF seps # {}
                   THEN Trimmed(SubSeq(s, Least(seps) + 1, Len(s)))
                   ELSE Trimmed(s)

\* a label with whitespace between the letter and the separator
StripLabelContractWitness ==
    /\ last.op = "clean_label"
    /\ last.arg = PyStr(<<"A", " ", ")", "x">>)
    /\ last.ret = PyStr(<<"x">>)

\* C14 as stated: letter_to_index returns the index of the letter exactly for the
\* strings made of optional leading whitespace, one letter A-D, an optional
\* separator right after it and optional trailing whitespace; None for every
\* other string and for a value that is no string.
LetterIndexAdjacentSeparator ==
    last.op = "letter_to_index" =>
        LET s == last.arg.s
            shaped ==
                /\ last.arg.t = "str"
                /\ \E i \in 1..Len(s) :
                       /\ s[i] \in Letters
                       /\ \A k \in 1..(i - 1) : s[k] \in Whitespace
                       /\ \/ \A k \in (i + 1)..Len(s) : s[k] \in Whitespace
                          \/ /\ i + 1 <= Len(s) /\ s[i + 1] \in Separators
                             /\ \A k \in (i + 2)..Len(s) : s[k] \in Whitespace
        IN  IF shaped
            THEN last.ret = PyInt(LetterOrd(s[Least(Inked(s))]))
            ELSE last.ret = PyNone

\* C14, amended: letter_to_index returns the 0-based index of the letter (A = 0 ..
\* D = 3, either case) exactly for the strings made of optional whitespace, one
\* letter A-D, optional whitespace, an optional separator among ) . : - and
\* optional whitespace; None for every other string, such as one with content
\* after the label, and for a value that is no string.
LetterIndexContract ==
    last.op = "letter_to_index" =>
        LET s == last.arg.s
            ink == Inked(s)
            shaped ==
                /\ last.arg.t = "str"
                /\ Cardinality(ink) \in {1, 2}
                /\ s[Least(ink)] \in Letters
                /\ Cardinality(ink) = 2 => s[Greatest(ink)] \in Separators
        IN  IF shaped
            THEN last.ret = PyInt(LetterOrd(s[Least(ink)]))
            ELSE last.ret = PyNone

\* "A) x" has content after the label and yields None
LetterIndexContractWitness ==
    /\ last.op = "letter_to_index"
    /\ last.arg = PyStr(<<"A", ")", " ", "x">>)
    /\ last.ret = PyNone

====
